---- MODULE Spec2Model ----
(***************************************************************************)
(* Model of the koka runtime fragments of this repository:                 *)
(*   - the generated effect module test/float/bench2 (handler objects,     *)
(*     clause selection, operation calls through the evidence vector),     *)
(*   - kklib/src/os.c (text files),                                        *)
(*   - cruntime/include/runtime/bits.h (clz / ctz).                        *)
(* Reference counts follow the design document: a live object has a count  *)
(* >= 1 and count = 1 means unique.                                        *)
(***************************************************************************)
EXTENDS Integers, Sequences, FiniteSets, TLC

\* ------------------------------------------------------------------ bounds
MaxObj == 4
MaxRc == 2
MaxDepth == 2
MaxMarker == 3
MaxShare == 2
MaxFile == 2

Obj == 1..MaxObj
NoObj == 0
Args == {5, 6}
Garbage == {7}

VARIABLES
  heap,      \* Obj -> [kind, rc, fld, beh, rel] : the heap objects
  held,      \* Obj -> number of references owned by the generated caller
  evv,       \* the evidence vector of the context, innermost entry last
  frames,    \* per installed handle: the evidence vector at its entry
  marker,    \* last marker handed out
  susp,      \* the continuation captured by a suspended operation call
  last,      \* what the last operation did (observations for the checks)
  os,        \* outcome of the last os.c call
  bits,      \* outcome of the last bits.h evaluation
  sc         \* position of the count scenario

vars == <<heap, held, evv, frames, marker, susp, last, os, bits, sc>>

\* ------------------------------------------------------------ heap objects
NoBlock == [kind |-> "none", rc |-> 0, scan |-> 0, fld |-> <<>>, beh |-> "none", rel |-> 0]

Live(H, o) == o \in DOMAIN H /\ H[o].rc >= 1

IsClause(H, o) == o \in DOMAIN H /\ H[o].kind \in {"clause0", "clause1"}

\* kk_block_alloc_at_as: a fresh block with reference count 1 and the given
\* scan count; the block takes over the references stored in its fields.
Fresh(H) ==
  {o \in DOMAIN H : H[o].kind = "none" /\ \A p \in DOMAIN H : p < o => H[p].kind # "none"}

block_alloc(H, o, kind, scan, fld, beh) ==
  [H EXCEPT ![o] = [kind |-> kind, rc |-> 1, scan |-> scan, fld |-> fld, beh |-> beh,
                    rel |-> 0]]

\* kk_basetype_dup_as
basetype_dup(H, o) == [H EXCEPT ![o].rc = @ + 1]

\* kk_basetype_is_unique
basetype_is_unique(H, o) == H[o].rc = 1

\* kk_basetype_free: releases the storage only, the fields are not dropped.
basetype_free(H, o) == [H EXCEPT ![o].rc = 0, ![o].rel = @ + 1]

\* kk_basetype_decref
basetype_decref(H, o) == [H EXCEPT ![o].rc = @ - 1]

\* kk_basetype_drop: decrement; at zero drop the first `scan` fields, then
\* release.
\* The pending references are kept on an explicit work list.
RECURSIVE DropList(_, _)
DropList(H, work) ==
  IF work = <<>> THEN H
  ELSE LET o == Head(work)
           rest == Tail(work)
       IN IF H[o].rc > 1
            THEN DropList([H EXCEPT ![o].rc = @ - 1], rest)
            ELSE DropList([H EXCEPT ![o].rc = 0, ![o].rel = @ + 1],
                          SubSeq(H[o].fld, 1, H[o].scan) \o rest)

basetype_drop(H, o) == DropList(H, <<o>>)

\* ------------------------------------------------- handler constructors
\* struct fields in declaration order: Hnd_bra {fun_brara},
\* Hnd_count {fun_one, fun_two}, Bra {_field1}, Count {_field1}.
new_Hnd_bra(H, o, fun_brara) == block_alloc(H, o, "Hnd_bra", 1, <<fun_brara>>, "none")

\* Faulty variant of new_Hnd_count: scan count 1, so fun_two is never dropped.
new_Hnd_count_scan1(H, o, fun_one, fun_two) ==
  block_alloc(H, o, "Hnd_count", 1, <<fun_one, fun_two>>, "none")

new_Hnd_count(H, o, fun_one, fun_two) ==
  block_alloc(H, o, "Hnd_count", 2, <<fun_one, fun_two>>, "none")

new_Bra(H, o, field1) == block_alloc(H, o, "Bra", 1, <<field1>>, "none")

new_Count(H, o, field1) == block_alloc(H, o, "Count", 1, <<field1>>, "none")

\* Reading field i of the block behind a handler pointer. The generated code
\* casts without a check (both handler types carry tag 1), so reading a field
\* the block does not have yields a wild pointer.
field(H, h, i) == IF i <= Len(H[h].fld) THEN H[h].fld[i] ELSE NoObj

hnd_dup(H, h) == basetype_dup(H, h)
hnd_drop(H, h) == basetype_drop(H, h)
hnd_is_unique(H, h) == basetype_is_unique(H, h)
hnd_free(H, h) == basetype_free(H, h)
hnd_decref(H, h) == basetype_decref(H, h)

\* kk_std_core_hnd__clause0_dup / clause1_dup / clause1_drop; a wild pointer
\* is left alone here and reported by the caller.
clause_dup(H, c) == IF c \in DOMAIN H THEN basetype_dup(H, c) ELSE H
clause_drop(H, c) == IF c \in DOMAIN H THEN basetype_drop(H, c) ELSE H

\* --------------------------------------------------------- clause selection
select_brara(H, hnd) ==
  LET fun_brara == field(H, hnd, 1)
  IN IF hnd_is_unique(H, hnd)
       THEN [heap |-> hnd_free(H, hnd), clause |-> fun_brara, path |-> "unique"]
       ELSE [heap |-> hnd_decref(clause_dup(H, fun_brara), hnd),
             clause |-> fun_brara, path |-> "shared"]

\* Faulty variant of select_one: the shared path forgets to dup the clause.
select_one_nodup(H, hnd) ==
  LET fun_one == field(H, hnd, 1)
      pat0 == field(H, hnd, 2)
  IN IF hnd_is_unique(H, hnd)
       THEN [heap |-> hnd_free(clause_drop(H, pat0), hnd),
             clause |-> fun_one, path |-> "unique"]
       ELSE [heap |-> hnd_decref(H, hnd), clause |-> fun_one, path |-> "shared"]

select_one(H, hnd) ==
  LET fun_one == field(H, hnd, 1)
      pat0 == field(H, hnd, 2)
  IN IF hnd_is_unique(H, hnd)
       THEN [heap |-> hnd_free(clause_drop(H, pat0), hnd),
             clause |-> fun_one, path |-> "unique"]
       ELSE [heap |-> hnd_decref(clause_dup(H, fun_one), hnd),
             clause |-> fun_one, path |-> "shared"]

\* Faulty variant of select_two: it returns the first clause, fun_one.
select_two_first(H, hnd) ==
  LET fun_one == field(H, hnd, 1)
      pat0 == field(H, hnd, 2)
  IN IF hnd_is_unique(H, hnd)
       THEN [heap |-> hnd_free(clause_drop(H, pat0), hnd),
             clause |-> fun_one, path |-> "unique"]
       ELSE [heap |-> hnd_decref(clause_dup(H, fun_one), hnd),
             clause |-> fun_one, path |-> "shared"]

\* Faulty variant of select_two: the unique path frees the handler without
\* dropping the clause that was not selected.
select_two_nodrop(H, hnd) ==
  LET pat0 == field(H, hnd, 1)
      fun_two == field(H, hnd, 2)
  IN IF hnd_is_unique(H, hnd)
       THEN [heap |-> hnd_free(H, hnd), clause |-> fun_two, path |-> "unique"]
       ELSE [heap |-> hnd_decref(clause_dup(H, fun_two), hnd),
             clause |-> fun_two, path |-> "shared"]

select_two(H, hnd) ==
  LET pat0 == field(H, hnd, 1)
      fun_two == field(H, hnd, 2)
  IN IF hnd_is_unique(H, hnd)
       THEN [heap |-> hnd_free(clause_drop(H, pat0), hnd),
             clause |-> fun_two, path |-> "unique"]
       ELSE [heap |-> hnd_decref(clause_dup(H, fun_two), hnd),
             clause |-> fun_two, path |-> "shared"]

\* --------------------------------------------------------- evidence vector
\* An entry is (effect tag, marker, handler reference); the vector is a stack
\* whose last element is the innermost installation.
NoEv == [tag |-> "none", marker |-> 0, hnd |-> NoObj]

evv_push(E, tag, m, h) == Append(E, [tag |-> tag, marker |-> m, hnd |-> h])

\* Faulty variant of evv_pop: it removes the oldest entry.
evv_pop_oldest(E) == Tail(E)

evv_pop(E) == SubSeq(E, 1, Len(E) - 1)

\* kk_evv_at(i, ctx): the entry at index i, counted from the innermost entry;
\* no entry at that index is the MissingHandler condition.
kk_evv_at(E, i) == IF i < Len(E) THEN E[Len(E) - i] ELSE NoEv

\* Position of the innermost entry for an effect tag (0: none installed).
InnermostIdx(E, tag) ==
  LET S == {i \in 1..Len(E) : E[i].tag = tag}
  IN IF S = {} THEN 0 ELSE CHOOSE i \in S : \A j \in S : j <= i

Innermost(E, tag) == IF InnermostIdx(E, tag) = 0 THEN NoEv ELSE E[InnermostIdx(E, tag)]

TagOfKind(k) == IF k = "Hnd_bra" THEN "bra" ELSE IF k = "Hnd_count" THEN "count" ELSE "none"

\* ---------------------------------------------------------- operation calls
\* Invoking the selected clause: the call consumes the clause reference.
\* add1/add2 are tail-resumptive clauses a -> a+1, a -> a+2; unit returns ();
\* ctl captures the continuation and suspends.  A wild clause pointer, or a
\* clause of the other arity, makes the result undefined.
clause_call(H, c, a, g) ==
  IF ~Live(H, c) \/ ~IsClause(H, c)
    THEN [heap |-> H, val |-> g, ctl |-> "undefined"]
  ELSE IF H[c].beh = "ctl"
    THEN [heap |-> clause_drop(H, c), val |-> a, ctl |-> "yield"]
  ELSE IF H[c].beh = "add1"
    THEN [heap |-> clause_drop(H, c), val |-> a + 1, ctl |-> "return"]
  ELSE IF H[c].beh = "add2"
    THEN [heap |-> clause_drop(H, c), val |-> a + 2, ctl |-> "return"]
  ELSE [heap |-> clause_drop(H, c), val |-> 0, ctl |-> "return"]

Failed(H) == [heap |-> H, err |-> "MissingHandler", h |-> NoObj, m |-> 0, n |-> 0,
              n1 |-> 0, path |-> "", c |-> NoObj, val |-> 0, ctl |-> "abort"]

Called(H, ev, sel, r, val, ctl) ==
  [heap |-> r.heap, err |-> "", h |-> ev.hnd, m |-> ev.marker, n |-> H[ev.hnd].rc,
   n1 |-> sel.heap[ev.hnd].rc, path |-> sel.path, c |-> sel.clause, val |-> val, ctl |-> ctl]

\* kk_test_float_bench2_brara: () -> bra ()
brara(H, E, g) ==
  LET ev_790 == kk_evv_at(E, 0)
  IN IF ev_790 = NoEv THEN Failed(H)
     ELSE LET h == ev_790.hnd
              sel == select_brara(hnd_dup(H, h), h)
              r == clause_call(sel.heap, sel.clause, g, g)
          IN Called(H, ev_790, sel, r, 0,
                    IF r.ctl = "undefined" \/ H[sel.clause].kind # "clause0"
                      THEN "undefined" ELSE r.ctl)

\* Faulty variant of one: the handler is not duped before select_one.
one_nodup(H, E, a, g) ==
  LET ev_794 == kk_evv_at(E, 0)
  IN IF ev_794 = NoEv THEN Failed(H)
     ELSE LET h == ev_794.hnd
              sel == select_one(H, h)
              r == clause_call(sel.heap, sel.clause, a, g)
              bad == r.ctl = "undefined" \/ H[sel.clause].kind # "clause1"
          IN Called(H, ev_794, sel, r, IF bad THEN g ELSE r.val,
                    IF bad THEN "undefined" ELSE r.ctl)

\* kk_test_float_bench2_one: (a : int) -> count int
one(H, E, a, g) ==
  LET ev_794 == kk_evv_at(E, 0)
  IN IF ev_794 = NoEv THEN Failed(H)
     ELSE LET h == ev_794.hnd
              sel == select_one(hnd_dup(H, h), h)
              r == clause_call(sel.heap, sel.clause, a, g)
              bad == r.ctl = "undefined" \/ H[sel.clause].kind # "clause1"
          IN Called(H, ev_794, sel, r, IF bad THEN g ELSE r.val,
                    IF bad THEN "undefined" ELSE r.ctl)

\* kk_test_float_bench2_two: (a : int) -> count int
two(H, E, a, g) ==
  LET ev_800 == kk_evv_at(E, 0)
  IN IF ev_800 = NoEv THEN Failed(H)
     ELSE LET h == ev_800.hnd
              sel == select_two(hnd_dup(H, h), h)
              r == clause_call(sel.heap, sel.clause, a, g)
              bad == r.ctl = "undefined" \/ H[sel.clause].kind # "clause1"
          IN Called(H, ev_800, sel, r, IF bad THEN g ELSE r.val,
                    IF bad THEN "undefined" ELSE r.ctl)

\* ------------------------------------------------ handler installation
\* handle(hnd, ret, action): push the entry, run the action, pop the entry
\* and release the handler reference the entry held.
handle_enter(E, tag, m, h) == evv_push(E, tag, m, h)

handle_exit(H, E) ==
  [heap |-> hnd_drop(H, E[Len(E)].hnd), evv |-> evv_pop(E), m |-> E[Len(E)].marker]

\* Leaving every handle from the innermost one down to entry idx.
RECURSIVE unwind(_, _, _, _)
unwind(H, E, idx, pops) ==
  IF Len(E) < idx \/ E = <<>> THEN [heap |-> H, evv |-> E, pops |-> pops]
  ELSE LET x == handle_exit(H, E)
       IN unwind(x.heap, x.evv, idx, Append(pops, x.m))

MarkerIdx(E, m) == CHOOSE i \in 1..Len(E) : E[i].marker = m

\* ------------------------------------------------------------------ state
Rcs(H) == [o \in DOMAIN H |-> H[o].rc]

NoLast == [op |-> "none", name |-> "", h |-> NoObj, n |-> 0, n1 |-> 0, path |-> "",
           c |-> NoObj, arg |-> 0, val |-> 0, err |-> "", ctl |-> "",
           want |-> NoObj, pops |-> <<>>, lifo |-> TRUE, restored |-> TRUE,
           pre |-> <<>>]

NoSusp == [on |-> FALSE, m |-> 0, evv |-> <<>>, frames |-> <<>>]

Idle == ~susp.on

Take(hd, o) == [hd EXCEPT ![o] = @ - 1]
Give(hd, o) == [hd EXCEPT ![o] = @ + 1]

\* ------------------------------------------- the operation-call machine
\* The handlers the generated program has constructed before it installs
\* them: a bra handler and two count handlers, each held once by the caller.
\*   1 clause0            2 Hnd_bra {1}
\*   3 clause1 a -> a+1   4 clause1 a -> a+2   5 Hnd_count {3, 4}
\*   6 clause1 (ctl)      7 Hnd_count {6, 4}
ProgramHeap(b0) ==
  LET blk(k, n, f, b) ==
        [kind |-> k, rc |-> n, scan |-> Len(f), fld |-> f, beh |-> b, rel |-> 0]
  IN <<blk("clause0", 1, <<>>, b0), blk("Hnd_bra", 1, <<1>>, "none"),
       blk("clause1", 1, <<>>, "add1"), blk("clause1", 2, <<>>, "add2"),
       blk("Hnd_count", 1, <<3, 4>>, "none"),
       blk("clause1", 1, <<>>, "ctl"), blk("Hnd_count", 1, <<6, 4>>, "none")>>

ProgramHeld == <<0, 1, 0, 0, 1, 0, 1>>

OtherIdle == os = "idle" /\ bits = "idle" /\ sc = "idle"

Init ==
  /\ \E b0 \in {"unit", "ctl"} : heap = ProgramHeap(b0)
  /\ held = ProgramHeld
  /\ evv = <<>>
  /\ frames = <<>>
  /\ marker = 0
  /\ susp = NoSusp
  /\ last = NoLast
  /\ OtherIdle

Dup ==
  \E o \in DOMAIN heap :
    /\ Idle
    /\ held[o] >= 1 /\ heap[o].rc < MaxRc
    /\ heap' = basetype_dup(heap, o)
    /\ held' = Give(held, o)
    /\ last' = NoLast
    /\ UNCHANGED <<evv, frames, marker, susp, os, bits, sc>>

Drop ==
  \E o \in DOMAIN heap :
    /\ Idle
    /\ held[o] >= 1
    /\ heap' = basetype_drop(heap, o)
    /\ held' = Take(held, o)
    /\ last' = NoLast
    /\ UNCHANGED <<evv, frames, marker, susp, os, bits, sc>>

Install(tag, h) ==
  /\ Idle
  /\ held[h] >= 1
  /\ Len(evv) < MaxDepth
  /\ marker < MaxMarker
  /\ marker' = marker + 1
  /\ evv' = handle_enter(evv, tag, marker + 1, h)
  /\ frames' = Append(frames, [m |-> marker + 1, before |-> evv])
  /\ held' = Take(held, h)
  /\ last' = [NoLast EXCEPT !.op = "handle", !.h = h]
  /\ UNCHANGED <<heap, susp, os, bits, sc>>

HandleBra == \E h \in DOMAIN heap : heap[h].kind = "Hnd_bra" /\ Install("bra", h)

HandleCount == \E h \in DOMAIN heap : heap[h].kind = "Hnd_count" /\ Install("count", h)

HandleReturn ==
  /\ Idle
  /\ evv # <<>>
  /\ LET x == handle_exit(heap, evv)
         f == frames[Len(frames)]
     IN /\ heap' = x.heap
        /\ evv' = x.evv
        /\ frames' = SubSeq(frames, 1, Len(frames) - 1)
        /\ last' = [NoLast EXCEPT !.op = "exit", !.name = "return", !.pops = <<x.m>>,
                                  !.lifo = (x.m = f.m), !.restored = (x.evv = f.before),
                                  !.pre = Rcs(heap)]
  /\ UNCHANGED <<held, marker, susp, os, bits, sc>>

Performed(name, tag, a, r) ==
  /\ heap' = r.heap
  /\ last' = [NoLast EXCEPT !.op = "call", !.name = name, !.h = r.h, !.n = r.n,
                            !.n1 = r.n1, !.path = r.path, !.c = r.c, !.arg = a,
                            !.val = r.val, !.err = r.err, !.ctl = r.ctl,
                            !.want = Innermost(evv, tag).hnd, !.pre = Rcs(heap)]
  /\ IF r.ctl = "yield"
       THEN LET idx == MarkerIdx(evv, r.m)
            IN /\ susp' = [on |-> TRUE, m |-> r.m, evv |-> evv, frames |-> frames]
               /\ evv' = SubSeq(evv, 1, idx - 1)
               /\ frames' = SubSeq(frames, 1, idx - 1)
       ELSE UNCHANGED <<evv, frames, susp>>
  /\ UNCHANGED <<held, marker, os, bits, sc>>

CallBrara == \E g \in Garbage : Idle /\ Performed("brara", "bra", 0, brara(heap, evv, g))

CallOne ==
  \E a \in Args, g \in Garbage : Idle /\ Performed("one", "count", a, one(heap, evv, a, g))

CallTwo ==
  \E a \in Args, g \in Garbage : Idle /\ Performed("two", "count", a, two(heap, evv, a, g))

\* The captured continuation is invoked: the evidence vector of the
\* suspension point is back in place.
Resume ==
  /\ susp.on
  /\ evv' = susp.evv
  /\ frames' = susp.frames
  /\ susp' = NoSusp
  /\ last' = [NoLast EXCEPT !.op = "resume", !.restored = (evv' = susp.evv)]
  /\ UNCHANGED <<heap, held, marker, os, bits, sc>>

\* The clause never resumes: the handle of marker m, and every handle inside
\* it, exits.
Discard ==
  /\ susp.on
  /\ LET idx == MarkerIdx(susp.evv, susp.m)
         x == unwind(heap, susp.evv, idx, <<>>)
         fs == susp.frames
     IN /\ heap' = x.heap
        /\ evv' = x.evv
        /\ frames' = SubSeq(fs, 1, idx - 1)
        /\ last' = [NoLast EXCEPT !.op = "exit", !.name = "never", !.pops = x.pops,
                       !.lifo = (x.pops = [i \in 1..(Len(fs) - idx + 1) |-> fs[Len(fs) + 1 - i].m]),
                       !.restored = (x.evv = fs[idx].before), !.pre = Rcs(heap)]
  /\ susp' = NoSusp
  /\ UNCHANGED <<held, marker, os, bits, sc>>

Next ==
  \/ Dup \/ Drop
  \/ HandleBra \/ HandleCount \/ HandleReturn
  \/ CallBrara \/ CallOne \/ CallTwo
  \/ Resume \/ Discard

Spec == Init /\ [][Next]_vars

\* --------------------------------------------------- the object machine
\* Objects are built with the constructors of the generated module, shared
\* with dup, released with drop, and handlers are consumed by clause selection.
InitHeap ==
  /\ heap = [o \in Obj |-> NoBlock]
  /\ held = [o \in Obj |-> 0]
  /\ evv = <<>>
  /\ frames = <<>>
  /\ marker = 0
  /\ susp = NoSusp
  /\ last = NoLast
  /\ OtherIdle

\* The references a block's fields take must be owned by the caller.
Owns(c1, c2) ==
  /\ held[c1] >= 1
  /\ held[c2] >= 1
  /\ c1 = c2 => held[c1] >= 2

Built(H, o, taken) ==
  /\ heap' = H
  /\ held' = Give(taken, o)
  /\ last' = NoLast
  /\ UNCHANGED <<evv, frames, marker, susp, os, bits, sc>>

NewClause0 ==
  \E o \in Fresh(heap) : Built(block_alloc(heap, o, "clause0", 0, <<>>, "unit"), o, held)

NewClause1 ==
  \E o \in Fresh(heap) : Built(block_alloc(heap, o, "clause1", 0, <<>>, "add1"), o, held)

NewHndBra ==
  \E o \in Fresh(heap), c \in Obj :
    /\ heap[c].kind = "clause0" /\ held[c] >= 1
    /\ Built(new_Hnd_bra(heap, o, c), o, Take(held, c))

NewHndCount ==
  \E o \in Fresh(heap), c1 \in Obj, c2 \in Obj :
    /\ heap[c1].kind = "clause1" /\ heap[c2].kind = "clause1" /\ Owns(c1, c2)
    /\ Built(new_Hnd_count(heap, o, c1, c2), o, Take(Take(held, c1), c2))

NewBra ==
  \E o \in Fresh(heap), h \in Obj :
    /\ heap[h].kind = "Hnd_bra" /\ held[h] >= 1
    /\ Built(new_Bra(heap, o, h), o, Take(held, h))

NewCount ==
  \E o \in Fresh(heap), h \in Obj :
    /\ heap[h].kind = "Hnd_count" /\ held[h] >= 1
    /\ Built(new_Count(heap, o, h), o, Take(held, h))

Selected(name, h, r) ==
  /\ heap' = r.heap
  /\ held' = Give(Take(held, h), r.clause)
  /\ last' = [NoLast EXCEPT !.op = "select", !.name = name, !.h = h, !.n = heap[h].rc,
                            !.path = r.path, !.c = r.clause, !.pre = Rcs(heap)]
  /\ UNCHANGED <<evv, frames, marker, susp, os, bits, sc>>

SelectBrara ==
  \E h \in Obj :
    /\ heap[h].kind = "Hnd_bra" /\ held[h] >= 1
    /\ heap[h].rc = 1 \/ heap[heap[h].fld[1]].rc < MaxRc
    /\ Selected("brara", h, select_brara(heap, h))

SelectOne ==
  \E h \in Obj :
    /\ heap[h].kind = "Hnd_count" /\ held[h] >= 1
    /\ heap[h].rc = 1 \/ heap[heap[h].fld[1]].rc < MaxRc
    /\ Selected("one", h, select_one(heap, h))

SelectTwo ==
  \E h \in Obj :
    /\ heap[h].kind = "Hnd_count" /\ held[h] >= 1
    /\ heap[h].rc = 1 \/ heap[heap[h].fld[2]].rc < MaxRc
    /\ Selected("two", h, select_two(heap, h))

NextHeap ==
  \/ NewClause0 \/ NewClause1 \/ NewHndBra \/ NewHndCount \/ NewBra \/ NewCount
  \/ Dup \/ Drop
  \/ SelectBrara \/ SelectOne \/ SelectTwo

SpecHeap == InitHeap /\ [][NextHeap]_vars

\* --------------------------------------------------- the count scenario
\* handle(hnd, ret, action) for a count handler with clauses one(a) = a+1 and
\* two(a) = a+2, ret the identity and the action  one(a); two(one(a)).
\* Other holders of the handler may dup and drop it at any point.
ScenarioHeap ==
  LET blk(k, n, f, b) ==
        [kind |-> k, rc |-> n, scan |-> Len(f), fld |-> f, beh |-> b, rel |-> 0]
  IN <<blk("clause1", 1, <<>>, "add1"), blk("clause1", 1, <<>>, "add2"),
       blk("Hnd_count", 1, <<1, 2>>, "none")>>

ScHnd == Len(ScenarioHeap)
ScArgs == {0, 5, 6}

InitScenario ==
  /\ heap = ScenarioHeap
  /\ held = <<0, 0, 1>>
  /\ evv = <<>>
  /\ frames = <<>>
  /\ marker = 0
  /\ susp = NoSusp
  /\ last = NoLast
  /\ os = "idle"
  /\ bits = "idle"
  /\ \E a \in ScArgs : sc = [pc |-> "start", a |-> a, x |-> 0, res |-> 0, rcs |-> <<>>]

ScShare ==
  /\ sc.pc \in {"one1", "one2", "two"}
  /\ heap[ScHnd].rc <= MaxShare
  /\ heap' = hnd_dup(heap, ScHnd)
  /\ held' = Give(held, ScHnd)
  /\ UNCHANGED <<evv, frames, marker, susp, last, os, bits, sc>>

ScUnshare ==
  /\ sc.pc \in {"one1", "one2", "two"}
  /\ held[ScHnd] >= 1
  /\ heap' = hnd_drop(heap, ScHnd)
  /\ held' = Take(held, ScHnd)
  /\ UNCHANGED <<evv, frames, marker, susp, last, os, bits, sc>>

ScInstall ==
  /\ sc.pc = "start"
  /\ marker' = marker + 1
  /\ evv' = handle_enter(evv, "count", marker + 1, ScHnd)
  /\ frames' = Append(frames, [m |-> marker + 1, before |-> evv])
  /\ held' = Take(held, ScHnd)
  /\ sc' = [sc EXCEPT !.pc = "one1"]
  /\ UNCHANGED <<heap, susp, last, os, bits>>

ScCall(name, r, next) ==
  /\ heap' = r.heap
  /\ last' = [NoLast EXCEPT !.op = "call", !.name = name, !.h = r.h, !.n = r.n,
                            !.path = r.path, !.c = r.c, !.val = r.val, !.err = r.err]
  /\ sc' = [sc EXCEPT !.pc = next, !.x = r.val, !.rcs = Append(@, r.n)]
  /\ UNCHANGED <<held, evv, frames, marker, susp, os, bits>>

ScOne1 == \E g \in Garbage : sc.pc = "one1" /\ ScCall("one", one(heap, evv, sc.a, g), "one2")

ScOne2 == \E g \in Garbage : sc.pc = "one2" /\ ScCall("one", one(heap, evv, sc.a, g), "two")

ScTwo == \E g \in Garbage : sc.pc = "two" /\ ScCall("two", two(heap, evv, sc.x, g), "ret")

ScReturn ==
  /\ sc.pc = "ret"
  /\ LET x == handle_exit(heap, evv)
     IN heap' = x.heap /\ evv' = x.evv
  /\ frames' = SubSeq(frames, 1, Len(frames) - 1)
  /\ sc' = [sc EXCEPT !.pc = "done", !.res = sc.x]
  /\ last' = NoLast
  /\ UNCHANGED <<held, marker, susp, os, bits>>

NextScenario ==
  \/ ScInstall \/ ScOne1 \/ ScOne2 \/ ScTwo \/ ScReturn \/ ScShare \/ ScUnshare

SpecScenario == InitScenario /\ [][NextScenario]_vars

\* ------------------------------------------------------------ text files
\* The platform: what fopen, fseek, ftell, fread, ferror, fwrite, fclose and
\* errno answer during one call.  A file is a sequence of bytes.
Bytes == {65, 66}
Files == UNION {[1..n -> Bytes] : n \in 0..MaxFile}
Errnos == {0, 2, 5}

ReadEnvs ==
  {e \in [data : Files, open : BOOLEAN, seekEnd : BOOLEAN, tell : -1..MaxFile,
          seekSet : BOOLEAN, nread : 0..MaxFile, ferr : BOOLEAN, errno : Errnos] :
     /\ e.tell \in {-1, Len(e.data)}
     /\ e.nread <= Len(e.data)
     /\ e.nread < Len(e.data) \/ ~e.ferr}

WriteEnvs ==
  [content : Files, open : BOOLEAN, nwritten : 0..MaxFile, closeOk : BOOLEAN,
   errno : Errnos]

\* kk_string_alloc_buf(len): a buffer of len bytes, not yet written.
kk_string_alloc_buf(len) == [i \in 1..len |-> 0]

\* fread(buf, 1, fsize, f) that read nread bytes of the file.
fread(buf, data, nread) == [i \in 1..Len(buf) |-> IF i <= nread THEN data[i] ELSE buf[i]]

\* kk_string_adjust_length(s, len): s cut to len bytes.
kk_string_adjust_length(str, len) == SubSeq(str, 1, len)

\* Faulty variant of os_fail: errno is returned as it is, even 0.
os_fail_noerrno(e, opened, r) ==
  [r EXCEPT !.closes = IF opened THEN 1 ELSE 0, !.ret = e.errno]

\* The exit through the label fail: of read and write.
os_fail(e, opened, r) ==
  [r EXCEPT !.closes = IF opened THEN 1 ELSE 0,
            !.ret = IF e.errno # 0 THEN e.errno ELSE -1]

ReadStart ==
  [fn |-> "read", ret |-> 0, result |-> <<>>, resultIs |-> "empty", pathDrops |-> 1,
   closes |-> 0, bufAllocs |-> 0, bufDrops |-> 0, emptyDrops |-> 0]

kk_os_read_text_file(e) ==
  LET r0 == ReadStart
      early == [r0 EXCEPT !.emptyDrops = 1]
  IN IF ~e.open THEN os_fail(e, FALSE, early)
     ELSE IF ~e.seekEnd THEN os_fail(e, TRUE, early)
     ELSE IF e.tell < 0 THEN os_fail(e, TRUE, early)
     ELSE IF ~e.seekSet THEN os_fail(e, TRUE, early)
     ELSE LET fsize == e.tell
              s == fread(kk_string_alloc_buf(fsize), e.data, e.nread)
              r1 == [r0 EXCEPT !.bufAllocs = 1]
          IN IF e.ferr THEN os_fail(e, TRUE, [r1 EXCEPT !.bufDrops = 1])
             ELSE [r1 EXCEPT !.closes = 1, !.resultIs = "buf", !.ret = 0,
                             !.result = IF e.nread < fsize
                                          THEN kk_string_adjust_length(s, e.nread)
                                          ELSE s]

WriteStart ==
  [fn |-> "write", ret |-> 0, pathDrops |-> 1, closes |-> 0, contentDrops |-> 1,
   written |-> <<>>]

kk_os_write_text_file(e) ==
  LET r0 == WriteStart
      len == Len(e.content)
      nwritten == IF e.nwritten <= len THEN e.nwritten ELSE len
  IN IF ~e.open THEN os_fail(e, FALSE, r0)
     ELSE IF len > 0 /\ nwritten < len
            THEN os_fail(e, TRUE, [r0 EXCEPT !.written = SubSeq(e.content, 1, nwritten)])
     ELSE [r0 EXCEPT !.closes = 1, !.ret = 0, !.written = e.content]

InitOS ==
  /\ heap = <<>>
  /\ held = <<>>
  /\ evv = <<>>
  /\ frames = <<>>
  /\ marker = 0
  /\ susp = NoSusp
  /\ last = NoLast
  /\ bits = "idle"
  /\ sc = "idle"
  /\ os = [call |-> [fn |-> "none"], env |-> <<>>]

\* os.c keeps no state between calls: each call starts from the idle state.
OsIdle == os.call.fn = "none"

OsReset ==
  /\ ~OsIdle
  /\ os' = [call |-> [fn |-> "none"], env |-> <<>>]
  /\ UNCHANGED <<heap, held, evv, frames, marker, susp, last, bits, sc>>

ReadTextFile ==
  /\ OsIdle
  /\ \E e \in ReadEnvs : os' = [call |-> kk_os_read_text_file(e), env |-> e]
  /\ UNCHANGED <<heap, held, evv, frames, marker, susp, last, bits, sc>>

WriteTextFile ==
  /\ OsIdle
  /\ \E e \in WriteEnvs : os' = [call |-> kk_os_write_text_file(e), env |-> e]
  /\ UNCHANGED <<heap, held, evv, frames, marker, susp, last, bits, sc>>

NextOS == ReadTextFile \/ WriteTextFile \/ OsReset

SpecOS == InitOS /\ [][NextOS]_vars

\* ------------------------------------------------------ paths (os.c 147-381)
\* A C string is a sequence of characters, or the null pointer.  A function
\* that returns a kk_string_t yields an outcome: a string, a crash of the
\* process ("trap"), or the bytes of a buffer nobody wrote ("garbage").
NULL == [null |-> TRUE, s |-> <<>>]
CStr(s) == [null |-> FALSE, s |-> s]

Str(s) == [kind |-> "str", s |-> s]
Trap == [kind |-> "trap", s |-> <<>>]
Unwritten == [kind |-> "garbage", s |-> <<>>]

kk_string_empty == Str(<<>>)
kk_string_is_empty_borrow(o) == o.kind = "str" /\ o.s = <<>>

Platforms == {"windows", "macos", "linux", "unix", "other"}

\* The preprocessor branch of kk_os_realpathx a platform compiles.
RealpathBranch(pf) ==
  IF pf = "windows" THEN "windows"
  ELSE IF pf \in {"macos", "linux", "unix"} THEN "posix"
  ELSE "none"

MaxPathLen == 2
FullPathBuf == 264
ModuleBuf == 264
kk_os_path_max == 32768

KK_PATH_SEP(pf) == IF pf = "windows" THEN ";" ELSE ":"
KK_PROC_SELF == <<"/", "p">>

\* What the platform answers: the canonical form of a name (realpath,
\* GetFullPathNameA), the executable's name as GetModuleFileNameA and
\* proc_pidpath report it.
realpath(fname) == <<"R">> \o fname
GetFullPathNameA(fname) == <<"F">> \o fname
ModuleName == <<"M">>
PidPath == <<"P">>

\* Reading a buffer that was never written, and kk_string_alloc_dup of a null
\* pointer: the outcomes a build can produce.
UninitOutcomes == {"empty", "garbage"}
NullDupOutcomes == {"empty", "trap"}
Uninit(e) == IF e.uninit = "empty" THEN kk_string_empty ELSE Unwritten
kk_string_alloc_dup_null(e) == IF e.nulldup = "empty" THEN kk_string_empty ELSE Trap

kk_os_realpathx(e, fname) ==
  IF RealpathBranch(e.pf) = "windows"
    THEN LET res == e.fullLen
         IN IF res >= FullPathBuf THEN Str(fname)
            ELSE IF res = 0 THEN Uninit(e)
            ELSE Str(GetFullPathNameA(fname))
  ELSE IF RealpathBranch(e.pf) = "posix"
    THEN IF fname \in e.exists THEN Str(realpath(fname))
         ELSE kk_string_alloc_dup_null(e)
  ELSE Str(fname)

\* kk_os_realpath: the result and the number of drops of fname.
kk_os_realpath(e, fname) ==
  LET p == kk_os_realpathx(e, fname)
  IN [fn |-> "realpath", ret |-> p, generic |-> FALSE,
      fnameDrops |-> IF p.kind = "trap" THEN 0 ELSE 1]

kk_os_file_exists(e, fname) == fname \in e.exists

\* strchr(p, sep) from index p (1-based) of paths: the index of the next
\* separator, or pend (Len + 1) when there is none.
RECURSIVE strchr_from(_, _, _)
strchr_from(paths, p, sep) ==
  IF p > Len(paths) THEN Len(paths) + 1
  ELSE IF paths[p] = sep THEN p
  ELSE strchr_from(paths, p + 1, sep)

\* Faulty variant of the loop: no break after a match, so a later entry that
\* matches replaces the result.
RECURSIVE searchpath_loop_nobreak(_, _, _, _)
searchpath_loop_nobreak(e, paths, fname, p) ==
  LET pend == Len(paths) + 1
      r == strchr_from(paths, p, KK_PATH_SEP(e.pf))
      buf == SubSeq(paths, p, r - 1) \o <<"/">> \o fname
      p1 == IF r = pend THEN r ELSE r + 1
      rest == searchpath_loop_nobreak(e, paths, fname, p1)
  IN IF ~(p < pend) THEN kk_string_empty
     ELSE IF kk_os_file_exists(e, buf) /\ kk_string_is_empty_borrow(rest)
       THEN kk_os_realpathx(e, buf)
     ELSE rest

\* The while loop of kk_os_searchpathx, at position p.
RECURSIVE searchpath_loop(_, _, _, _)
searchpath_loop(e, paths, fname, p) ==
  LET pend == Len(paths) + 1
      r == strchr_from(paths, p, KK_PATH_SEP(e.pf))
      buf == SubSeq(paths, p, r - 1) \o <<"/">> \o fname
      p1 == IF r = pend THEN r ELSE r + 1
  IN IF ~(p < pend) THEN kk_string_empty
     ELSE IF kk_os_file_exists(e, buf) THEN kk_os_realpathx(e, buf)
     ELSE searchpath_loop(e, paths, fname, p1)

kk_os_searchpathx(e, paths, fname) ==
  IF paths.null \/ fname.null \/ fname.s = <<>> THEN kk_string_empty
  ELSE searchpath_loop(e, paths.s, fname.s, 1)

\* The rounds of the while loop from position p: where each starts, the
\* length of its entry, the bytes it writes to buf (entry, "/", fname and the
\* terminating zero), where it leaves p, and whether the file exists.
RECURSIVE searchpath_steps(_, _, _, _)
searchpath_steps(e, paths, fname, p) ==
  LET pend == Len(paths) + 1
      r == strchr_from(paths, p, KK_PATH_SEP(e.pf))
      plen == r - p
      buf == SubSeq(paths, p, r - 1) \o <<"/">> \o fname
      p1 == IF r = pend THEN r ELSE r + 1
      found == kk_os_file_exists(e, buf)
      step == [p |-> p, plen |-> plen, wrote |-> plen + 1 + Len(fname) + 1,
               next |-> p1, found |-> found]
  IN IF ~(p < pend) THEN <<>>
     ELSE IF found THEN <<step>>
     ELSE <<step>> \o searchpath_steps(e, paths, fname, p1)

SearchDone(ret, steps, mallocs, frees, size) ==
  [fn |-> "searchpath", ret |-> ret, steps |-> steps, mallocs |-> mallocs,
   frees |-> frees, bufSize |-> size]

\* One call of kk_os_searchpathx with its buffer: kk_malloc may fail.
searchpathx_call(e) ==
  IF e.paths.null \/ e.fname.null \/ e.fname.s = <<>>
    THEN SearchDone(kk_string_empty, <<>>, 0, 0, 0)
  ELSE IF ~e.mallocOk THEN SearchDone(kk_string_empty, <<>>, 0, 0, 0)
  ELSE LET s == kk_os_searchpathx(e, e.paths, e.fname)
       IN SearchDone(s, searchpath_steps(e, e.paths.s, e.fname.s, 1), 1,
                     IF s.kind = "trap" THEN 0 ELSE 1,
                     Len(e.paths.s) + Len(e.fname.s) + 2)

Letters == {"a", "d"}
At(p, i) == IF i <= Len(p) THEN p[i] ELSE "0"
Has(p, ch) == \E i \in 1..Len(p) : p[i] = ch

IsAbsolute(pf, p) ==
  \/ At(p, 1) = "/"
  \/ /\ pf = "windows"
     /\ At(p, 2) = ":" /\ At(p, 1) \in Letters /\ At(p, 3) \in {"\\", "/"}

IsRelative(pf, p) == Has(p, "/") \/ (pf = "windows" /\ Has(p, "\\"))

kk_os_app_path_generic(e) ==
  LET p == e.argv0
  IN IF p.null \/ p.s = <<>> THEN kk_string_empty
     ELSE IF IsAbsolute(e.pf, p.s) THEN kk_os_realpathx(e, p.s)
     ELSE IF IsRelative(e.pf, p.s)
       THEN kk_os_realpath(e, <<".", "/">> \o p.s).ret
     ELSE LET s == kk_os_searchpathx(e, e.path, p)
          IN IF kk_string_is_empty_borrow(s) THEN kk_os_realpathx(e, p.s) ELSE s

Generic(e) == [fn |-> "app_path", ret |-> kk_os_app_path_generic(e), generic |-> TRUE,
               fnameDrops |-> 0]
Direct(o) == [fn |-> "app_path", ret |-> o, generic |-> FALSE, fnameDrops |-> 0]

\* GetModuleFileNameA(NULL, buf, n): the length copied, n when the name was
\* cut, 0 when the call failed.
GetModuleFileNameA(e, n) ==
  IF e.moduleLen = 0 THEN 0 ELSE IF e.moduleLen < n THEN e.moduleLen ELSE n

app_path_windows(e) ==
  LET len == GetModuleFileNameA(e, ModuleBuf)
  IN IF len < ModuleBuf
       THEN Direct(IF len = 0 THEN kk_string_empty ELSE Str(ModuleName))
     ELSE LET slen == kk_os_path_max
              len2 == GetModuleFileNameA(e, slen + 1)
          IN IF len2 > slen THEN Generic(e)
             ELSE Direct(IF len2 = 0 THEN kk_string_empty ELSE Str(ModuleName))

app_path_macos(e) ==
  LET ret == e.pidpath
  IN IF ret > 0 THEN Generic(e) ELSE Direct(Uninit(e))

app_path_linux(e) ==
  LET s == kk_os_realpathx(e, KK_PROC_SELF)
  IN IF s.kind = "trap" THEN Direct(s)
     ELSE IF s = Str(KK_PROC_SELF) THEN Generic(e)
     ELSE Direct(s)

kk_os_app_path(e) ==
  IF e.pf = "windows" THEN app_path_windows(e)
  ELSE IF e.pf = "macos" THEN app_path_macos(e)
  ELSE IF e.pf = "linux" THEN app_path_linux(e)
  ELSE Generic(e)

\* The inputs of one call: the platform, argv[0], the PATH variable, the
\* files that exist, the lengths GetFullPathNameA and GetModuleFileNameA
\* report, the result of proc_pidpath.
Argv0s ==
  {NULL, CStr(<<>>), CStr(<<"a">>), CStr(<<"/", "a">>), CStr(<<"a", "/", "a">>),
   CStr(<<"a", ":", "\\", "a">>), CStr(<<"a", "\\", "a">>)}

PathChars == {"d", ":", ";"}
PathVars ==
  {NULL} \cup {CStr(s) : s \in UNION {[1..n -> PathChars] : n \in 0..MaxPathLen}}

Fnames == {<<"a">>, <<"/", "a">>, <<"d", "/", "a">>}

ExistCands(pf) ==
  {<<"a">>, <<"/", "a">>, <<"d", "/", "a">>, <<".", "/", "a", "/", "a">>}
    \cup (IF pf = "linux" THEN {KK_PROC_SELF} ELSE {})

FullLens == {0, 1, FullPathBuf - 1, FullPathBuf}
ModuleLens == {0, 1, ModuleBuf - 1, ModuleBuf, kk_os_path_max, kk_os_path_max + 1}

PathEnvs(pf, argv0s, paths, fnames) ==
  [pf : {pf}, argv0 : argv0s, path : paths, fname : fnames,
   exists : SUBSET ExistCands(pf),
   fullLen : IF pf = "windows" THEN FullLens ELSE {0},
   moduleLen : IF pf = "windows" /\ fnames = {<<>>} THEN ModuleLens ELSE {0},
   pidpath : IF pf = "macos" /\ fnames = {<<>>} THEN {0, Len(PidPath)} ELSE {0},
   uninit : IF pf \in {"windows", "macos"} THEN UninitOutcomes ELSE {"empty"},
   nulldup : IF RealpathBranch(pf) = "posix" THEN NullDupOutcomes ELSE {"empty"}]

AppPath ==
  /\ OsIdle
  /\ \E pf \in Platforms : \E e \in PathEnvs(pf, Argv0s, PathVars, {<<>>}) :
       os' = [call |-> kk_os_app_path(e), env |-> e]
  /\ UNCHANGED <<heap, held, evv, frames, marker, susp, last, bits, sc>>

RealPath ==
  /\ OsIdle
  /\ \E pf \in Platforms : \E e \in PathEnvs(pf, {NULL}, {NULL}, Fnames) :
       os' = [call |-> kk_os_realpath(e, e.fname), env |-> e]
  /\ UNCHANGED <<heap, held, evv, frames, marker, susp, last, bits, sc>>

SearchNames == {NULL, CStr(<<>>), CStr(<<"a">>)}

SearchEnvs(pf) ==
  [pf : {pf}, paths : PathVars, fname : SearchNames, mallocOk : BOOLEAN,
   exists : SUBSET ExistCands(pf),
   fullLen : IF pf = "windows" THEN FullLens ELSE {0},
   uninit : IF pf = "windows" THEN UninitOutcomes ELSE {"empty"},
   nulldup : IF RealpathBranch(pf) = "posix" THEN NullDupOutcomes ELSE {"empty"}]

SearchPath ==
  /\ OsIdle
  /\ \E pf \in Platforms : \E e \in SearchEnvs(pf) :
       os' = [call |-> searchpathx_call(e), env |-> e]
  /\ UNCHANGED <<heap, held, evv, frames, marker, susp, last, bits, sc>>

NextPath == AppPath \/ RealPath \/ SearchPath \/ OsReset

SpecPath == InitOS /\ [][NextPath]_vars

\* ------------------------------------------------- environment (os.c 83-144)
\* An environment variable is the sequence of its characters; "0" is the
\* terminating zero byte.  The Windows environment block holds the variables
\* one after the other, each with its terminator, and one more zero byte; the
\* POSIX environ array holds one zero-terminated string per variable.
MaxVars == 2
MaxEntry == 3
EnvChars == {"=", "a"}
Entries == UNION {[1..n -> EnvChars] : n \in 1..MaxEntry}
Environs == UNION {[1..n -> Entries] : n \in 0..MaxVars}

\* The bytes that follow a string in memory, and whether they can be read.
Afters == {<<"0">>, <<"a", "0">>}

RECURSIVE EnvBlock(_)
EnvBlock(vs) ==
  IF vs = <<>> THEN <<"0">> ELSE Head(vs) \o <<"0">> \o EnvBlock(Tail(vs))

GetEnvironmentStringsA(vs) == IF vs = <<>> THEN <<"0", "0">> ELSE EnvBlock(vs)

\* while (*p != c1 && *p != c2) p++, from p: the index it stops at, or an
\* index beyond the memory when it runs off it.
RECURSIVE Scan(_, _, _)
Scan(mem, p, stops) ==
  IF p > Len(mem) THEN p
  ELSE IF mem[p] \in stops THEN p
  ELSE Scan(mem, p + 1, stops)

\* One round of the copy loop at p: name, value, the p after the value's
\* terminator and the last index read; trap when a byte beyond lim was read.
ParseEntry(mem, lim, p) ==
  LET q == Scan(mem, p, {"=", "0"})
      pvalue == q + 1
      q2 == Scan(mem, pvalue, {"0"})
  IN IF q > lim \/ q2 > lim
       THEN [trap |-> TRUE, name |-> <<>>, value |-> <<>>, next |-> p, last |-> q2]
     ELSE [trap |-> FALSE, name |-> SubSeq(mem, p, q - 1),
           value |-> SubSeq(mem, pvalue, q2 - 1), next |-> q2 + 1, last |-> q2]

\* The counting loop of the Windows version, at index i (1-based).
RECURSIVE CountBlock(_, _, _)
CountBlock(env, i, count) ==
  IF i + 1 > Len(env) \/ (env[i] = "0" /\ env[i + 1] = "0") THEN count
  ELSE CountBlock(env, i + 1, IF env[i] = "0" THEN count + 1 ELSE count)

\* The vector returned, whether the call crashed, and whether a byte after
\* the terminator of the string being copied (after the block) was read.
GetEnvDone(vec, trap, past) == [fn |-> "get_env", vec |-> vec, trap |-> trap, past |-> past]

RECURSIVE CopyBlock(_, _, _, _, _, _, _)
CopyBlock(mem, lim, p, i, count, vec, end) ==
  IF i >= count THEN GetEnvDone(vec, FALSE, FALSE)
  ELSE LET r == ParseEntry(mem, lim, p)
           rest == CopyBlock(mem, lim, r.next, i + 1, count, vec \o <<r.name, r.value>>, end)
       IN IF r.trap THEN GetEnvDone(vec, TRUE, TRUE)
          ELSE [rest EXCEPT !.past = @ \/ r.last > end]

Readable(e, s) == IF e.guard THEN Len(s) ELSE Len(s) + Len(e.after)

get_env_windows(e) ==
  LET env == GetEnvironmentStringsA(e.vars)
      count == CountBlock(env, 1, 0)
  IN CopyBlock(env \o e.after, Readable(e, env), 1, 0, count, <<>>, Len(env))

RECURSIVE CopyEnviron(_, _, _, _, _)
CopyEnviron(e, env, i, count, vec) ==
  IF i >= count THEN GetEnvDone(vec, FALSE, FALSE)
  ELSE LET str == env[i + 1] \o <<"0">>
           r == ParseEntry(str \o e.after, Readable(e, str), 1)
           rest == CopyEnviron(e, env, i + 1, count, vec \o <<r.name, r.value>>)
       IN IF r.trap THEN GetEnvDone(vec, TRUE, TRUE)
          ELSE [rest EXCEPT !.past = @ \/ r.last > Len(str)]

get_env_posix(e) == CopyEnviron(e, e.vars, 0, Len(e.vars), <<>>)

kk_os_get_env(e) ==
  IF e.null THEN GetEnvDone(<<>>, FALSE, FALSE)
  ELSE IF e.pf = "windows" THEN get_env_windows(e)
  ELSE get_env_posix(e)

GetEnvEnvs ==
  {e \in [pf : {"windows", "posix"}, vars : Environs, null : BOOLEAN,
          after : Afters, guard : BOOLEAN] : e.null => e.vars = <<>>}

GetEnv ==
  /\ OsIdle
  /\ \E e \in GetEnvEnvs : os' = [call |-> kk_os_get_env(e), env |-> e]
  /\ UNCHANGED <<heap, held, evv, frames, marker, susp, last, bits, sc>>

NextEnv == GetEnv \/ OsReset

SpecEnv == InitOS /\ [][NextEnv]_vars

\* ------------------------------------------------------------------ bits.h
\* A word of w bits is the set of the positions of its 1 bits (bit 0 is the
\* least significant), so that 32- and 64-bit words are computed exactly.
W16 == 16
W32 == 32
W64 == 64
DeBruijnCtz == 125613361   \* 0x077CB531
DeBruijnClz == 130329821   \* 0x07C4ACDD

Pow2(n) == 2^n
BitsOf(n) == {i \in 0..30 : (n \div Pow2(i)) % 2 = 1}

RECURSIVE ToNat(_)
ToNat(x) == IF x = {} THEN 0
            ELSE LET i == CHOOSE j \in x : TRUE IN Pow2(i) + ToNat(x \ {i})

MaxBit(x) == CHOOSE i \in x : \A j \in x : j <= i
MinBit(x) == CHOOSE i \in x : \A j \in x : i <= j

And(x, y) == x \cap y
Or(x, y) == x \cup y
Shr(x, n) == {i - n : i \in {j \in x : j >= n}}
Shl(x, n, w) == {i + n : i \in {j \in x : j + n < w}}
Not(x, w) == (0..(w - 1)) \ x
Lo32(x) == {i \in x : i < W32}
Hi32(x) == Shr(x, W32)

\* x + y modulo 2^w: bit i of the sum is x[i] xor y[i] xor the carry into i,
\* and a carry enters i when some lower position generates one (both bits 1)
\* that every position in between propagates (at least one bit 1).
\* gen: the positions that generate a carry; kill: those that absorb one.
CarryInto(gen, kill, i) ==
  \E j \in gen : j < i /\ \A k \in kill : k < j \/ k >= i

Add(x, y, w) ==
  LET gen == x \cap y
      kill == (0..(w - 1)) \ (x \cup y)
  IN {i \in 0..(w - 1) : ((i \in x) # (i \in y)) # CarryInto(gen, kill, i)}

\* Two's complement negation modulo 2^w: ~x + 1.
Neg(x, w) == Add(Not(x, w), {0}, w)

\* x * y modulo 2^w, by shift and add.
RECURSIVE Mul(_, _, _)
Mul(x, y, w) ==
  IF y = {} THEN {}
  ELSE LET i == MinBit(y) IN Add(Shl(x, i, w), Mul(x, y \ {i}, w), w)

\* The build: which #if branch of bits.h is compiled, and INTPTR_SIZE.
Variants == {"msvc", "gcc", "portable"}
\* The architecture matters to the MSVC branches only: popcount intrinsics
\* are used on x86 / x64, clz intrinsics on ARM as well.
Builds ==
  {b \in [variant : Variants, intptr : {4, 8}, arch : {"x86", "arm"}] :
     b.arch = "arm" => b.variant = "msvc"}
\* HAS_BITS_CLZ64 is defined by the compiler branch itself.
NativeClz64(b) == b.variant # "portable" /\ b.intptr >= 8

\* _BitScanReverse / _BitScanForward (and the 64 variants): whether a 1 bit
\* was found and, if so, its index; idx is left unset otherwise.
BitScanReverse(x) == [found |-> x # {}, idx |-> IF x = {} THEN 0 ELSE MaxBit(x)]
BitScanForward(x) == [found |-> x # {}, idx |-> IF x = {} THEN 0 ELSE MinBit(x)]
\* __builtin_clz / __builtin_ctz (and the ll variants) of a nonzero word.
builtin_clz(x, w) == w - 1 - MaxBit(x)
builtin_ctz(x) == MinBit(x)

debruijn_ctz ==
  <<0, 1, 28, 2, 29, 14, 24, 3, 30, 22, 20, 15, 25, 17, 4, 8,
    31, 27, 13, 23, 21, 19, 16, 7, 26, 12, 18, 6, 11, 5, 10, 9>>
debruijn_clz ==
  <<31, 22, 30, 21, 18, 10, 29, 2, 20, 17, 15, 13, 9, 6, 28, 1,
    23, 19, 11, 3, 16, 14, 7, 24, 12, 4, 8, 25, 5, 26, 27, 0>>

bits_clz32(b, x) ==
  CASE b.variant = "msvc" ->
         LET r == BitScanReverse(x) IN IF r.found THEN 31 - r.idx ELSE 32
    [] b.variant = "gcc" -> IF x = {} THEN 32 ELSE builtin_clz(x, W32)
    [] OTHER ->
         IF x = {} THEN 32
         ELSE LET x1 == Or(x, Shr(x, 1))
                  x2 == Or(x1, Shr(x1, 2))
                  x4 == Or(x2, Shr(x2, 4))
                  x8 == Or(x4, Shr(x4, 8))
                  x16 == Or(x8, Shr(x8, 16))
              IN debruijn_clz[ToNat(Shr(Mul(x16, BitsOf(DeBruijnClz), W32), 27)) + 1]

\* -(int32_t)x overflows for x = 0x80000000: the negation is undefined there.
NegOverflows(x) == x = {W32 - 1}

\* The portable branch has no test for x = 0.
bits_ctz32(b, x) ==
  CASE b.variant = "msvc" ->
         LET r == BitScanForward(x) IN IF r.found THEN r.idx ELSE 32
    [] b.variant = "gcc" -> IF x = {} THEN 32 ELSE builtin_ctz(x)
    [] OTHER ->
         debruijn_ctz[ToNat(Shr(Mul(And(x, Neg(x, W32)), BitsOf(DeBruijnCtz), W32), 27)) + 1]

bits_clz64(b, x) ==
  IF NativeClz64(b)
    THEN IF b.variant = "msvc"
           THEN LET r == BitScanReverse(x) IN IF r.found THEN 63 - r.idx ELSE 64
           ELSE IF x = {} THEN 64 ELSE builtin_clz(x, W64)
    ELSE LET cnt == bits_clz32(b, Hi32(x))
         IN IF cnt < 32 THEN cnt ELSE 32 + bits_clz32(b, Lo32(x))

bits_ctz64(b, x) ==
  IF NativeClz64(b)
    THEN IF b.variant = "msvc"
           THEN LET r == BitScanForward(x) IN IF r.found THEN r.idx ELSE 64
           ELSE IF x = {} THEN 64 ELSE builtin_ctz(x)
    ELSE LET cnt == bits_ctz32(b, Lo32(x))
         IN IF cnt < 32 THEN cnt ELSE 32 + bits_ctz32(b, Hi32(x))

\* Whether an evaluation meets the undefined negation of the portable ctz.
ctz32_undefined(b, x) == b.variant = "portable" /\ NegOverflows(x)
ctz64_undefined(b, x) ==
  /\ ~NativeClz64(b)
  /\ \/ ctz32_undefined(b, Lo32(x))
     \/ bits_ctz32(b, Lo32(x)) >= 32 /\ ctz32_undefined(b, Hi32(x))

\* ------------------------------------------------------------- rotations
\* A true rotation of a w-bit word: what _rotl16, _lrotl, _rotl64 compute.
RotL(x, n, w) == {(i + n) % w : i \in x}
RotR(x, n, w) == {(i + w - (n % w)) % w : i \in x}
Trunc(x, w) == {i \in x : i < w}

\* A shift by a count that is not less than the width of the (promoted) left
\* operand is undefined: the hardware masks the count, or shifts every bit
\* out, or the build traps.
ShiftOutcomes == {"mask", "zero", "trap"}
shr_c(x, n, w, u) ==
  IF n < w THEN Shr(x, n) ELSE IF u = "mask" THEN Shr(x, n % w) ELSE {}
shl_c(x, n, w, u) ==
  IF n < w THEN Shl(x, n, w) ELSE IF u = "mask" THEN Shl(x, n % w, w) ELSE {}

\* rotl16 / rotl32 / rotl64.  A uint16_t operand is promoted to int, so the
\* 16-bit version shifts within 32 bits and the result is cut to 16 bits.
rotl(b, w, x, n, u) ==
  IF b.variant = "msvc" THEN RotL(x, n, w)
  ELSE IF w = W16 THEN Trunc(Or(Shl(x, n, W32), Shr(x, W16 - n)), W16)
  ELSE Or(Shl(x, n, w), shr_c(x, w - n, w, u))

\* rotr16 / rotr32 / rotr64.
rotr(b, w, x, n, u) ==
  IF b.variant = "msvc" THEN RotR(x, n, w)
  ELSE IF w = W16 THEN Trunc(Or(Shr(x, n), Shl(x, W16 - n, W32)), W16)
  ELSE Or(Shr(x, n), shl_c(x, w - n, w, u))

\* Whether a rotation evaluates an undefined shift: a count equal to the
\* width (n = 0) for 32 and 64 bits; for rotr16, x << 16 leaving the range
\* of int.
rot_undefined(fn, b, w, x, n) ==
  /\ b.variant # "msvc"
  /\ \/ w # W16 /\ w - n >= w
     \/ w = W16 /\ fn = "rotr" /\ \E i \in x : i + (W16 - n) >= W32 - 1

\* ------------------------------------------------------- population count
Mask55 == 1431655765   \* 0x55555555
Mask33 == 858993459    \* 0x33333333
Mask0F == 252645135    \* 0x0F0F0F0F
Mask01 == 16843009     \* 0x01010101
\* U32(c) and the U64 constant that repeats c in both halves.
UConst(c, w) ==
  IF w = W32 THEN BitsOf(c) ELSE Or(BitsOf(c), Shl(BitsOf(c), W32, W64))

Sub(x, y, w) == Add(x, Neg(y, w), w)

\* Which #if branch of bits_count is compiled.
CountBranch(b) ==
  IF b.variant = "msvc" /\ b.arch = "x86" THEN "popcnt"
  ELSE IF b.variant = "gcc" THEN "builtin"
  ELSE "portable"
\* HAS_BITS_COUNT64 as the branch defines it.
NativeCount64(b) == CountBranch(b) = "portable" \/ b.intptr >= 8

\* __popcnt, __builtin_popcount (and the 64-bit ones).
popcnt(x) == Cardinality(x)

\* The parallel sum of bits_count32 (w = 32) and bits_count64 (w = 64); the
\* last shift is by w - 8.
count_parallel_nomask(x, w) ==
  LET x1 == Sub(x, And(Shr(x, 1), UConst(Mask55, w)), w)
      x2 == Add(And(x1, UConst(Mask33, w)), And(Shr(x1, 2), UConst(Mask33, w)), w)
  IN ToNat(Shr(Mul(Add(x2, Shr(x2, 4), w), UConst(Mask01, w), w), w - 8))

count_parallel(x, w) ==
  LET x1 == Sub(x, And(Shr(x, 1), UConst(Mask55, w)), w)
      x2 == Add(And(x1, UConst(Mask33, w)), And(Shr(x1, 2), UConst(Mask33, w)), w)
  IN ToNat(Shr(Mul(And(Add(x2, Shr(x2, 4), w), UConst(Mask0F, w)),
                   UConst(Mask01, w), w), w - 8))

bits_count32(b, x) ==
  IF CountBranch(b) = "portable" THEN count_parallel(x, W32) ELSE popcnt(x)

bits_count64(b, x) ==
  IF CountBranch(b) = "portable" THEN count_parallel(x, W64)
  ELSE IF NativeCount64(b) THEN popcnt(x)
  ELSE bits_count32(b, Lo32(x)) + bits_count32(b, Hi32(x))

\* ------------------------------------------------------------------ parity
Xor(x, y) == (x \ y) \cup (y \ x)
ParityTable == 27030   \* 0x6996
NibbleMask == 15       \* 0x0F

\* __builtin_parity / __builtin_parityll: the number of 1 bits modulo 2.
builtin_parity(x) == Cardinality(x) % 2

\* The xor fold of the portable bits_parity32.
parity_fold(x) ==
  LET x16 == Xor(x, Shr(x, 16))
      x8 == Xor(x16, Shr(x16, 8))
      x4 == Xor(x8, Shr(x8, 4))
      idx == ToNat(And(x4, BitsOf(NibbleMask)))
  IN IF 0 \in Shr(BitsOf(ParityTable), idx) THEN 1 ELSE 0

\* Faulty variant of bits_parity32: the fold by 8 is left out.
bits_parity32_nofold8(b, x) ==
  LET x16 == Xor(x, Shr(x, 16))
      x4 == Xor(x16, Shr(x16, 4))
      idx == ToNat(And(x4, BitsOf(NibbleMask)))
  IN IF 0 \in Shr(BitsOf(ParityTable), idx) THEN 1 ELSE 0

\* The #if of bits_parity names the same branches as that of bits_count.
bits_parity32(b, x) ==
  CASE CountBranch(b) = "popcnt" -> bits_count32(b, x) % 2
    [] CountBranch(b) = "builtin" -> builtin_parity(x)
    [] OTHER -> parity_fold(x)

bits_parity64(b, x) ==
  CASE CountBranch(b) = "popcnt" -> bits_count64(b, x) % 2
    [] CountBranch(b) = "builtin" -> builtin_parity(x)
    [] OTHER -> bits_parity32(b, Lo32(Xor(x, Shr(x, 32))))

\* ------------------------------------------------------------ power of two
\* Faulty variant of bits_is_power_of2: the test x != 0 is left out.
bits_is_power_of2_nozero(x, w) == And(x, Sub(x, {0}, w)) = {}

\* _bits_is_power_of2(x), for bits_is_power_of2_32 and bits_is_power_of2_64.
bits_is_power_of2(x, w) == x # {} /\ And(x, Sub(x, {0}, w)) = {}

\* Input words: every subset of the boundary positions, every single bit,
\* every run of low bits and every run of high bits.
BitCases(w) == {0, 1, (w \div 2) - 1, w \div 2, w - 2, w - 1}
Inputs(w) ==
  (SUBSET BitCases(w)) \cup {{k} : k \in 0..(w - 1)}
    \cup {0..k : k \in 0..(w - 1)} \cup {k..(w - 1) : k \in 0..(w - 1)}

\* What an undefined evaluation does: wrap around as the hardware does, or trap.
Undefined == {"wrap", "trap"}

InitBits ==
  /\ heap = <<>>
  /\ held = <<>>
  /\ evv = <<>>
  /\ frames = <<>>
  /\ marker = 0
  /\ susp = NoSusp
  /\ last = NoLast
  /\ os = "idle"
  /\ sc = "idle"
  /\ \E b \in Builds, w \in {W16, W32, W64} : \E x \in Inputs(w) :
       bits = [fn |-> "none", b |-> b, w |-> w, x |-> x, ret |-> 0, trap |-> FALSE,
               n |-> 0, out |-> {}]

Evaluated(fn, ret, trap) ==
  /\ bits' = [bits EXCEPT !.fn = fn, !.ret = IF trap THEN 0 ELSE ret, !.trap = trap]
  /\ UNCHANGED <<heap, held, evv, frames, marker, susp, last, os, sc>>

Clz32 ==
  /\ bits.fn = "none" /\ bits.w = W32
  /\ Evaluated("clz32", bits_clz32(bits.b, bits.x), FALSE)

Ctz32 ==
  /\ bits.fn = "none" /\ bits.w = W32
  /\ \E u \in Undefined :
       Evaluated("ctz32", bits_ctz32(bits.b, bits.x),
                 u = "trap" /\ ctz32_undefined(bits.b, bits.x))

Clz64 ==
  /\ bits.fn = "none" /\ bits.w = W64
  /\ Evaluated("clz64", bits_clz64(bits.b, bits.x), FALSE)

Ctz64 ==
  /\ bits.fn = "none" /\ bits.w = W64
  /\ \E u \in Undefined :
       Evaluated("ctz64", bits_ctz64(bits.b, bits.x),
                 u = "trap" /\ ctz64_undefined(bits.b, bits.x))

\* A function whose result is a word.
EvaluatedWord(fn, n, out, trap) ==
  /\ bits' = [bits EXCEPT !.fn = fn, !.n = n, !.out = IF trap THEN {} ELSE out,
                          !.trap = trap]
  /\ UNCHANGED <<heap, held, evv, frames, marker, susp, last, os, sc>>

Rotl ==
  /\ bits.fn = "none"
  /\ \E n \in 0..(bits.w - 1), u \in ShiftOutcomes :
       EvaluatedWord("rotl", n, rotl(bits.b, bits.w, bits.x, n, u),
                     u = "trap" /\ rot_undefined("rotl", bits.b, bits.w, bits.x, n))

Rotr ==
  /\ bits.fn = "none"
  /\ \E n \in 0..(bits.w - 1), u \in ShiftOutcomes :
       EvaluatedWord("rotr", n, rotr(bits.b, bits.w, bits.x, n, u),
                     u = "trap" /\ rot_undefined("rotr", bits.b, bits.w, bits.x, n))

Count32 ==
  /\ bits.fn = "none" /\ bits.w = W32
  /\ Evaluated("count32", bits_count32(bits.b, bits.x), FALSE)

Count64 ==
  /\ bits.fn = "none" /\ bits.w = W64
  /\ Evaluated("count64", bits_count64(bits.b, bits.x), FALSE)

Parity32 ==
  /\ bits.fn = "none" /\ bits.w = W32
  /\ Evaluated("parity32", bits_parity32(bits.b, bits.x), FALSE)

Parity64 ==
  /\ bits.fn = "none" /\ bits.w = W64
  /\ Evaluated("parity64", bits_parity64(bits.b, bits.x), FALSE)

IsPowerOf2 ==
  /\ bits.fn = "none" /\ bits.w \in {W32, W64}
  /\ Evaluated("is_power_of2",
               IF bits_is_power_of2(bits.x, bits.w) THEN 1 ELSE 0, FALSE)

NextBits ==
  \/ Clz32 \/ Ctz32 \/ Clz64 \/ Ctz64 \/ Rotl \/ Rotr
  \/ Count32 \/ Count64
  \/ Parity32 \/ Parity64
  \/ IsPowerOf2

SpecBits == InitBits /\ [][NextBits]_vars

\* -------------------------------------------------------- zero byte in a word
\* bits_one_mask32 / bits_one_mask64 and bits_high_mask32 / bits_high_mask64.
bits_one_mask(w) == UConst(Mask01, w)
bits_high_mask(w) == Shl(bits_one_mask(w), 7, w)

\* Conversion of an unsigned word to bool.
ToBool(x) == x # {}

\* Faulty variant of bits_has_zero_byte: the test against ~x is left out.
bits_has_zero_byte_nonot(x, w) ==
  ToBool(And(Sub(x, bits_one_mask(w), w), bits_high_mask(w)))

\* bits_has_zero_byte32 (w = 32) and bits_has_zero_byte64 (w = 64).
bits_has_zero_byte(x, w) ==
  ToBool(And(Sub(x, bits_one_mask(w), w), And(Not(x, w), bits_high_mask(w))))

\* Input words made of the bytes 0x00, 0x01, 0x80 and 0xFF.
ByteCases == {{}, {0}, {7}, 0..7}
ByteWords(w) ==
  {UNION {{8 * k + i : i \in f[k]} : k \in DOMAIN f} :
     f \in [0..((w \div 8) - 1) -> ByteCases]}

InitBytes ==
  /\ heap = <<>>
  /\ held = <<>>
  /\ evv = <<>>
  /\ frames = <<>>
  /\ marker = 0
  /\ susp = NoSusp
  /\ last = NoLast
  /\ os = "idle"
  /\ sc = "idle"
  /\ \E w \in {W32, W64} : \E x \in ByteWords(w) \cup Inputs(w) :
       bits = [fn |-> "none", w |-> w, x |-> x, ret |-> FALSE]

HasZeroByte32 ==
  /\ bits.fn = "none" /\ bits.w = W32
  /\ bits' = [bits EXCEPT !.fn = "has_zero_byte32",
                          !.ret = bits_has_zero_byte(bits.x, W32)]
  /\ UNCHANGED <<heap, held, evv, frames, marker, susp, last, os, sc>>

HasZeroByte64 ==
  /\ bits.fn = "none" /\ bits.w = W64
  /\ bits' = [bits EXCEPT !.fn = "has_zero_byte64",
                          !.ret = bits_has_zero_byte(bits.x, W64)]
  /\ UNCHANGED <<heap, held, evv, frames, marker, susp, last, os, sc>>

NextBytes == HasZeroByte32 \/ HasZeroByte64

SpecBytes == InitBytes /\ [][NextBytes]_vars

\* ------------------------------------------------------ reference accounting
\* The vector that owns handler references: the captured one while an
\* operation is suspended.
CurEvv == IF susp.on THEN susp.evv ELSE evv

FieldRefs(H, o) ==
  Cardinality({x \in (DOMAIN H) \X (1..2) :
                 /\ Live(H, x[1])
                 /\ x[2] <= Len(H[x[1]].fld)
                 /\ H[x[1]].fld[x[2]] = o})

EvRefs(E, o) == Cardinality({i \in 1..Len(E) : E[i].hnd = o})

Owners(o) == held[o] + FieldRefs(heap, o) + EvRefs(CurEvv, o)

\* ---------------------------------------------------------------- claims

\* C1: selectClause on a handler with reference count n >= 1 discharges
\* exactly one unit of ownership of the handler (freed when n = 1, otherwise
\* the count becomes n - 1) and the returned clause carries a unit of
\* ownership of its own: its count covers the returned reference next to
\* every other owner, on the unique and on the shared path.
C1_SelectDischargesOne ==
  last.op = "select" =>
    /\ last.n >= 1
    /\ IF last.n = 1
         THEN heap[last.h].rc = 0 /\ heap[last.h].rel = 1 /\ last.path = "unique"
         ELSE heap[last.h].rc = last.n - 1 /\ heap[last.h].rel = 0 /\ last.path = "shared"
    /\ Live(heap, last.c)
    /\ held[last.c] >= 1
    /\ heap[last.c].rc = Owners(last.c)

C1_Witness ==
  /\ last.op = "select"
  /\ last.name = "two"
  /\ last.n = 1
  /\ heap[last.h].rel = 1
  /\ held[last.c] = 1

\* C6: in an object graph built with alloc, dup and drop no object is
\* released while a reference to it is outstanding, every object is released
\* at most once, the count of a live object is the number of its owners, and
\* once every reference has been dropped no object is live.
C6_RefcountSound ==
  /\ \A o \in DOMAIN heap :
       /\ heap[o].rel <= 1
       /\ Owners(o) >= 1 => Live(heap, o) /\ heap[o].rel = 0
       /\ Live(heap, o) => heap[o].rc = Owners(o)
  /\ (\A o \in DOMAIN heap : held[o] = 0) /\ CurEvv = <<>>
       => \A o \in DOMAIN heap : ~Live(heap, o)

C6_Witness ==
  /\ \A o \in DOMAIN heap : held[o] = 0 /\ ~Live(heap, o)
  /\ \E o \in DOMAIN heap : heap[o].kind = "Count" /\ heap[o].rel = 1
  /\ \E o \in DOMAIN heap : heap[o].kind = "clause1" /\ heap[o].rel = 1

EffectOf(name) == IF name = "brara" THEN "bra" ELSE "count"

\* C2: an operation call for effect E resolves to the innermost handler
\* installed for E, and a handler installed for another effect never
\* receives the call.
C2_DispatchInnermost ==
  last.op = "call" =>
    /\ last.want # NoObj => last.err = "" /\ last.h = last.want
    /\ last.err = "" => TagOfKind(heap[last.h].kind) = EffectOf(last.name)

\* C3: an operation call made while no handler for its effect is installed
\* ends in the MissingHandler error; it reads no handler, selects no clause
\* and invokes nothing.
C3_MissingHandlerFatal ==
  last.op = "call" /\ last.want = NoObj =>
    /\ last.err = "MissingHandler"
    /\ last.h = NoObj
    /\ last.c = NoObj
    /\ last.ctl = "abort"

\* C4: evidence entries are popped in the reverse order of their pushes, and
\* every exit of a handle (normal return, a clause that never resumes) leaves
\* the evidence vector as it was before that handle was entered; a resumed
\* continuation finds every installed entry on top of the vector it was
\* pushed on.
C4_EvvLifoRestored ==
  /\ last.op = "exit" => last.lifo /\ last.restored
  /\ Len(frames) = Len(evv)
  /\ \A i \in 1..Len(frames) :
       /\ frames[i].m = evv[i].marker
       /\ frames[i].before = SubSeq(evv, 1, i - 1)
  /\ \A i, j \in 1..Len(evv) : i < j => evv[i].marker < evv[j].marker

C4_Witness ==
  /\ last.op = "exit"
  /\ last.name = "never"
  /\ Len(last.pops) = 1
  /\ Len(evv) >= 1
  /\ last.restored

\* C5: in an operation call the handler read from the evidence entry is duped
\* before clause selection, so selection takes the shared path and never
\* frees the handler; after the call the handler's count is what it was
\* before and the evidence entry still holds a live reference.
C5_CallKeepsHandler ==
  last.op = "call" /\ last.err = "" =>
    /\ last.path = "shared"
    /\ last.n1 = last.n
    /\ heap[last.h].rc = last.n
    /\ heap[last.h].rel = 0
    /\ kk_evv_at(CurEvv, 0).hnd = last.h
    /\ Live(heap, last.h)

C5_Witness ==
  /\ last.op = "call"
  /\ last.name = "one"
  /\ last.n = 1
  /\ last.ctl = "return"
  /\ last.val = last.arg + 1
  /\ heap[last.h].rc = 1

\* C7: with one(a) = a+1 and two(a) = a+2 installed, the action one(5);
\* two(one(5)) yields 8 (a+3 in general), whatever the handler's reference
\* count is at the time of each call.
C7_ScenarioResult ==
  sc.pc = "done" =>
    /\ sc.res = sc.a + 3
    /\ sc.a = 5 => sc.res = 8

C7_Witness ==
  /\ sc.pc = "done"
  /\ sc.a = 5
  /\ sc.res = 8
  /\ sc.rcs[1] = 1
  /\ sc.rcs[3] > 1

\* The platform steps of a read all succeeded.
ReadWentWell(e) == e.open /\ e.seekEnd /\ e.tell >= 0 /\ e.seekSet /\ ~e.ferr

WriteFailed(e) ==
  \/ ~e.open
  \/ e.open /\ e.nwritten < Len(e.content)
  \/ e.open /\ ~e.closeOk

\* C9: kk_os_write_text_file returns a nonzero code whenever a platform step
\* of the write fails: opening the file, writing fewer bytes than the
\* content holds, or closing (flushing) the file.
C9_WriteFailureReported ==
  os.call.fn = "write" /\ WriteFailed(os.env) => os.call.ret # 0

\* C10: for a zero input clz and ctz return the bit width in every variant
\* (MSVC intrinsic, GCC builtin, portable de Bruijn fallback, 64-bit versions
\* composed from the 32-bit ones): 32 for the 32-bit functions, 64 for the
\* 64-bit ones.
C10_ZeroGivesWidth ==
  (bits.fn \in {"clz32", "ctz32", "clz64", "ctz64"} /\ bits.x = {} /\ ~bits.trap)
    => bits.ret = bits.w

\* The functions C11 speaks of: the portable 32-bit ones and the 64-bit ones
\* composed from 32-bit halves.
PortableOrComposed ==
  \/ bits.fn \in {"clz32", "ctz32"} /\ bits.b.variant = "portable"
  \/ bits.fn \in {"clz64", "ctz64"} /\ ~NativeClz64(bits.b)

\* C11: for every nonzero x the portable bits_clz32 / bits_ctz32 return the
\* number of leading / trailing zero bits of x, and the composed bits_clz64 /
\* bits_ctz64 those of the 64-bit word, also when a 32-bit half is zero.
C11_NonzeroCounts ==
  (PortableOrComposed /\ bits.x # {}) =>
    /\ ~bits.trap
    /\ bits.fn \in {"clz32", "clz64"} => bits.ret = bits.w - 1 - MaxBit(bits.x)
    /\ bits.fn \in {"ctz32", "ctz64"} => bits.ret = MinBit(bits.x)

\* C12: rotl16/32/64(x, n) and rotr16/32/64(x, n) return x rotated left,
\* respectively right, by n positions within the word width, for every x and
\* every n from 0 to width-1; for n = 0 the result is x.
C12_Rotation ==
  /\ bits.fn = "rotl" => ~bits.trap /\ bits.out = RotL(bits.x, bits.n, bits.w)
  /\ bits.fn = "rotr" => ~bits.trap /\ bits.out = RotR(bits.x, bits.n, bits.w)
  /\ bits.fn \in {"rotl", "rotr"} /\ bits.n = 0 => bits.out = bits.x

\* C13: bits_count32(x) is the number of set bits of x for every 32-bit x
\* (32 for 0xFFFFFFFF, 0 for 0), in the portable parallel sum as in the other
\* branches, and bits_count64(x) is the number of set bits of the 64-bit x.
C13_PopCount ==
  bits.fn \in {"count32", "count64"} => bits.ret = Cardinality(bits.x)

C13_Witness ==
  /\ bits.fn = "count32"
  /\ CountBranch(bits.b) = "portable"
  /\ bits.x = 0..(W32 - 1)
  /\ bits.ret = W32

\* C14: bits_parity32(x) and bits_parity64(x) return 0 when the number of set
\* bits of x is even and 1 when it is odd, in the portable xor fold with the
\* 0x6996 lookup as in the other branches.
C14_Parity ==
  bits.fn \in {"parity32", "parity64"} => bits.ret = Cardinality(bits.x) % 2

C14_Witness ==
  /\ bits.fn = "parity64"
  /\ CountBranch(bits.b) = "portable"
  /\ Cardinality(bits.x) = 3
  /\ Hi32(bits.x) # {} /\ Lo32(bits.x) # {}
  /\ bits.ret = 1

\* Byte k of the word x is 0x00.
ZeroByte(x, k) == \A i \in 0..7 : (8 * k + i) \notin x

\* C15: bits_has_zero_byte32(x), and the 64-bit version, return true if and
\* only if at least one of the bytes of x is 0x00.
C15_HasZeroByte ==
  bits.fn \in {"has_zero_byte32", "has_zero_byte64"} =>
    (bits.ret <=> \E k \in 0..((bits.w \div 8) - 1) : ZeroByte(bits.x, k))

C15_Witness ==
  /\ bits.fn = "has_zero_byte64"
  /\ bits.ret
  /\ ZeroByte(bits.x, 5)
  /\ \A k \in 0..7 : k # 5 => ~ZeroByte(bits.x, k)

\* C16: bits_is_power_of2(x) returns true if and only if x has exactly one
\* bit set; 0 is not a power of two.
C16_PowerOf2 ==
  bits.fn = "is_power_of2" =>
    /\ bits.ret = 1 <=> Cardinality(bits.x) = 1
    /\ bits.x = {} => bits.ret = 0

C16_Witness ==
  /\ bits.fn = "is_power_of2"
  /\ bits.w = W64
  /\ bits.x = {W64 - 1}
  /\ bits.ret = 1


\* Whether the platform-specific introspection of kk_os_app_path succeeded or
\* failed in environment e, and the path it obtained.
IntrospectionOk(e) ==
  \/ e.pf = "windows" /\ 0 < e.moduleLen /\ e.moduleLen <= kk_os_path_max
  \/ e.pf = "macos" /\ e.pidpath > 0
  \/ e.pf = "linux" /\ KK_PROC_SELF \in e.exists

IntrospectionFails(e) ==
  \/ e.pf = "windows" /\ e.moduleLen > kk_os_path_max
  \/ e.pf = "macos" /\ e.pidpath <= 0
  \/ e.pf = "linux" /\ KK_PROC_SELF \notin e.exists

Introspected(e) ==
  IF e.pf = "windows" THEN ModuleName
  ELSE IF e.pf = "macos" THEN PidPath
  ELSE realpath(KK_PROC_SELF)

\* C17: kk_os_app_path returns the path obtained by the platform-specific
\* introspection whenever the introspection succeeds, and calls
\* kk_os_app_path_generic exactly when it fails (Windows: the module file name
\* does not fit; macOS: proc_pidpath fails; Linux-like: the /proc self link
\* cannot be resolved).
C17_AppPath ==
  os.call.fn = "app_path" =>
    /\ IntrospectionOk(os.env) =>
         os.call.ret = Str(Introspected(os.env)) /\ ~os.call.generic
    /\ IntrospectionFails(os.env) => os.call.generic

\* When kk_os_realpathx has no resolution to offer in environment e, and the
\* resolved name otherwise.
ResolutionUnavailable(e) ==
  \/ RealpathBranch(e.pf) = "none"
  \/ RealpathBranch(e.pf) = "windows" /\ e.fullLen >= FullPathBuf

ResolvedName(e) ==
  IF RealpathBranch(e.pf) = "windows" THEN GetFullPathNameA(e.fname)
  ELSE realpath(e.fname)

\* C18: kk_os_realpath(fname) returns the resolved absolute path, or a copy of
\* fname when resolution is not available (no realpath on the platform, or a
\* Windows full path that does not fit the 264-byte buffer), and drops fname
\* exactly once.
C18_RealPath ==
  os.call.fn = "realpath" =>
    /\ os.call.ret = IF ResolutionUnavailable(os.env) THEN Str(os.env.fname)
                     ELSE Str(ResolvedName(os.env))
    /\ os.call.fnameDrops = 1


\* The text of an environment variable before its first '=' and after it.
NameOf(v) == SubSeq(v, 1, Scan(v, 1, {"="}) - 1)
ValueOf(v) == SubSeq(v, Scan(v, 1, {"="}) + 1, Len(v))

WellFormed(vs) == \A i \in 1..Len(vs) : Has(vs[i], "=")

\* C19: for an environment of N variables (each of the form name=value)
\* kk_os_get_env returns a vector of exactly 2*N entries, slot 2i the name and
\* slot 2i+1 the value of the i-th variable, no variable omitted, on Windows
\* as on POSIX.
C19_GetEnv ==
  (os.call.fn = "get_env" /\ ~os.env.null /\ WellFormed(os.env.vars)) =>
    /\ ~os.call.trap
    /\ Len(os.call.vec) = 2 * Len(os.env.vars)
    /\ \A i \in 1..Len(os.env.vars) :
         2 * i <= Len(os.call.vec) =>
           /\ os.call.vec[2 * i - 1] = NameOf(os.env.vars[i])
           /\ os.call.vec[2 * i] = ValueOf(os.env.vars[i])


\* The field select_one / select_two returns, the clause held by the other
\* field, and the change of a clause's count that the claim allows.
SelectedField == IF last.name = "one" THEN 1 ELSE 2
NonSelected == heap[last.h].fld[3 - SelectedField]

ClauseDelta(o) ==
  (IF last.path = "shared" /\ o = last.c THEN 1 ELSE 0)
    - (IF last.path = "unique" /\ o = NonSelected THEN 1 ELSE 0)

\* C20: select_one and select_two account for every clause reference of the
\* handler: on the unique path the clause that is not selected is dropped
\* exactly once and the selected one is moved out without a dup; on the shared
\* path the count of the clause that is not selected is unchanged and that of
\* the selected one rises by exactly one; no clause is leaked or dropped twice.
C20_ClausesAccounted ==
  (last.op = "select" /\ last.name \in {"one", "two"}) =>
    /\ last.c = heap[last.h].fld[SelectedField]
    /\ \A o \in {last.c, NonSelected} :
         /\ heap[o].rc = last.pre[o] + ClauseDelta(o)
         /\ heap[o].rc = Owners(o)
         /\ heap[o].rel = IF heap[o].rc = 0 THEN 1 ELSE 0
    /\ \A o \in DOMAIN heap :
         o \notin {last.h, last.c, NonSelected} => heap[o].rc = last.pre[o]

C20_Witness ==
  /\ last.op = "select"
  /\ last.name = "two"
  /\ last.path = "unique"
  /\ NonSelected # last.c
  /\ heap[NonSelected].rc = 0
  /\ heap[NonSelected].rel = 1
  /\ heap[last.c].rc = 1


\* C21: on every path through kk_os_read_text_file the path is dropped exactly
\* once, an opened file is closed exactly once, a buffer allocated for the
\* content is either returned in *result or dropped, never both, and on
\* failure *result holds an empty string that the function has not dropped.
C21_ReadResources ==
  os.call.fn = "read" =>
    /\ os.call.pathDrops = 1
    /\ os.call.closes = IF os.env.open THEN 1 ELSE 0
    /\ os.call.bufDrops <= os.call.bufAllocs
    /\ os.call.bufAllocs = 1 => ((os.call.resultIs = "buf") # (os.call.bufDrops = 1))
    /\ os.call.ret # 0 =>
         /\ os.call.resultIs = "empty"
         /\ os.call.result = <<>>
         /\ os.call.emptyDrops = 0


\* The entries of a PATH string: the segments ended by a separator and the
\* segment after the last separator when it is not empty.
RECURSIVE PathEntries(_, _)
PathEntries(paths, sep) ==
  IF paths = <<>> THEN <<>>
  ELSE LET r == strchr_from(paths, 1, sep)
       IN <<SubSeq(paths, 1, r - 1)>> \o PathEntries(SubSeq(paths, r + 1, Len(paths)), sep)

\* The file name searchpathx tries for an entry, and the first entry in
\* left-to-right order whose file exists (0: none).
Candidate(entry, fname) == entry \o <<"/">> \o fname

FirstMatch(e) ==
  LET es == PathEntries(e.paths.s, KK_PATH_SEP(e.pf))
      hits == {i \in 1..Len(es) : Candidate(es[i], e.fname.s) \in e.exists}
  IN IF hits = {} THEN 0 ELSE CHOOSE i \in hits : \A j \in hits : i <= j

SearchExpected(e) ==
  IF e.paths.null \/ e.fname.null \/ e.fname.s = <<>> \/ ~e.mallocOk \/ FirstMatch(e) = 0
    THEN kk_string_empty
  ELSE kk_os_realpathx(e, Candidate(PathEntries(e.paths.s, KK_PATH_SEP(e.pf))[FirstMatch(e)],
                                    e.fname.s))

C23_NoEqualsEntry ==
  (os.call.fn = "get_env" /\ os.env.pf = "posix" /\ ~os.env.null) =>
    \A i \in 1..Len(os.env.vars) :
      ~Has(os.env.vars[i], "=") =>
        /\ ~os.call.trap
        /\ ~os.call.past
        /\ Len(os.call.vec) >= 2 * i
        /\ os.call.vec[2 * i - 1] = os.env.vars[i]
        /\ os.call.vec[2 * i] = <<>>

====
